---- MODULE Spec2Model ----
(***************************************************************************)
(* gmaps-coords: resolution of place coordinates from Google Maps URLs.   *)
(* Model of src/src/lib.rs: the run (connect, writability precheck, CSV   *)
(* or GeoJSON reconciliation, output write, close), the resolver          *)
(* get_coords_for_url with its polling loop, and the extractor            *)
(* coords_from_regex.                                                     *)
(*                                                                         *)
(* Text is a sequence of one-character strings.  A coordinate value is    *)
(* an integer counting units of 10^-FracDigits (fixed point).             *)
(***************************************************************************)
EXTENDS Integers, Sequences, FiniteSets, TLC

\* ------------------------------------------------------------------------
\* Bounds of the model
\* ------------------------------------------------------------------------
MaxBatch == 2
FracDigits == 1

\* ------------------------------------------------------------------------
\* Characters and numbers
\* ------------------------------------------------------------------------
AsciiDigitSeq == <<"0", "1", "2", "3", "4", "5", "6", "7", "8", "9">>

AsciiDigits == {AsciiDigitSeq[k] : k \in 1..10}

\* "u3" stands for one non-ASCII decimal digit (U+0663, general category
\* Nd).  The regex crate's \d is Unicode-aware and matches it; f64's
\* FromStr accepts ASCII digits only.
UnicodeDigits == {"u3"}

IsDigit(c) == c \in AsciiDigits \cup UnicodeDigits

DigitVal(c) == (CHOOSE k \in 1..10 : AsciiDigitSeq[k] = c) - 1

RECURSIVE NatVal(_)
NatVal(s) ==
    IF s = <<>> THEN 0
    ELSE NatVal(SubSeq(s, 1, Len(s) - 1)) * 10 + DigitVal(s[Len(s)])

RECURSIVE Pow10(_)
Pow10(n) == IF n = 0 THEN 1 ELSE 10 * Pow10(n - 1)

Scale == Pow10(FracDigits)

MinOf(S) == CHOOSE m \in S : \A k \in S : m <= k

\* str::parse::<f64> on a text of the shape -?\d+(\.\d+)? : an error when a
\* digit is not ASCII, otherwise the value (in units of 1/Scale, digits
\* beyond the model's precision cut off; -0.0 compares equal to 0.0).
ParseF64(s) ==
    IF \E k \in 1..Len(s) : s[k] \in UnicodeDigits
    THEN [ok |-> FALSE, val |-> 0]
    ELSE
      LET neg   == s[1] = "-"
          body  == IF neg THEN SubSeq(s, 2, Len(s)) ELSE s
          dots  == {k \in 1..Len(body) : body[k] = "."}
          dot   == IF dots = {} THEN Len(body) + 1 ELSE MinOf(dots)
          ipart == SubSeq(body, 1, dot - 1)
          fall  == SubSeq(body, dot + 1, Len(body))
          fpart == SubSeq(fall, 1, IF Len(fall) < FracDigits
                                   THEN Len(fall) ELSE FracDigits)
          mag   == NatVal(ipart) * Scale
                       + NatVal(fpart) * Pow10(FracDigits - Len(fpart))
      IN  [ok |-> TRUE, val |-> IF neg THEN 0 - mag ELSE mag]

\* ------------------------------------------------------------------------
\* The coordinate pattern and the extractor
\* ------------------------------------------------------------------------
\* End of the longest run of \d starting at p; p - 1 when there is none.
RECURSIVE DigitsEnd(_, _)
DigitsEnd(text, p) ==
    IF p <= Len(text) /\ IsDigit(text[p]) THEN DigitsEnd(text, p + 1) ELSE p - 1

\* -?\d+(?:\.\d+)? at position p: index of the last character matched, 0
\* when there is no match.  Quantifiers are greedy; giving back characters
\* never makes what follows in LATLNGPAT match, so the greedy choice is the
\* match the regex engine reports.
NumberEnd(text, p) ==
    LET s == IF p <= Len(text) /\ text[p] = "-" THEN p + 1 ELSE p
        e == DigitsEnd(text, s)
        f == IF e + 1 <= Len(text) /\ text[e + 1] = "."
             THEN DigitsEnd(text, e + 2) ELSE e
    IN  IF e < s THEN 0
        ELSE IF f >= e + 2 THEN f ELSE e

NoMatch == [found |-> FALSE, lat |-> <<>>, lng |-> <<>>]

\* (-?\d+(?:\.\d+)?),(-?\d+(?:\.\d+)?) at position p: the two captures.
LATLNGPAT(text, p) ==
    LET e1 == NumberEnd(text, p)
    IN  IF e1 = 0 \/ e1 + 1 > Len(text) THEN NoMatch
        ELSE IF text[e1 + 1] # "," THEN NoMatch
        ELSE LET e2 == NumberEnd(text, e1 + 2)
             IN  IF e2 = 0 THEN NoMatch
                 ELSE [found |-> TRUE,
                       lat   |-> SubSeq(text, p, e1),
                       lng   |-> SubSeq(text, e1 + 2, e2)]

\* The two patterns of get_coords_for_url, named by their literal anchor.
QueryAnchor == <<"q", "=">>

ViewAnchor == <<"@">>

AnchorAt(anchor, text, p) ==
    /\ p + Len(anchor) - 1 <= Len(text)
    /\ SubSeq(text, p, p + Len(anchor) - 1) = anchor

\* Start positions of the matches of anchor ++ LATLNGPAT in text.
MatchStarts(anchor, text) ==
    {p \in 1..Len(text) :
        /\ AnchorAt(anchor, text, p)
        /\ LATLNGPAT(text, p + Len(anchor)).found}

\* Mutant: the last match is taken instead of the first.
FirstMatch_Last(anchor, text) ==
    LET starts == MatchStarts(anchor, text)
    IN  IF starts = {} THEN NoMatch
        ELSE LET last == CHOOSE p \in starts : \A k \in starts : k <= p
             IN  LATLNGPAT(text, last + Len(anchor))

\* pattern.captures_iter(text).next(): the leftmost match.
FirstMatch(anchor, text) ==
    LET starts == MatchStarts(anchor, text)
    IN  IF starts = {} THEN NoMatch
        ELSE LATLNGPAT(text, MinOf(starts) + Len(anchor))

Ok(coords) == [tag |-> "Ok", coords |-> coords, err |-> "none"]

Err(kind) == [tag |-> "Err", coords |-> <<>>, err |-> kind]

\* Mutant: the pair is returned in capture order, vec![lat, lng].
coords_from_regex_CaptureOrder(anchor, text) ==
    LET m == FirstMatch(anchor, text)
    IN  IF ~m.found THEN Err("NotFound")
        ELSE LET lat == ParseF64(m.lat)
                 lng == ParseF64(m.lng)
             IN  IF ~lat.ok \/ ~lng.ok THEN Err("Parse")
                 ELSE Ok(<<lat.val, lng.val>>)

\* coords_from_regex: first match only, both captures parsed, and the
\* result in (lng, lat) order.
coords_from_regex(anchor, text) ==
    LET m == FirstMatch(anchor, text)
    IN  IF ~m.found THEN Err("NotFound")
        ELSE LET lat == ParseF64(m.lat)
                 lng == ParseF64(m.lng)
             IN  IF ~lat.ok \/ ~lng.ok THEN Err("Parse")
                 ELSE Ok(<<lng.val, lat.val>>)

\* ------------------------------------------------------------------------
\* Data of a run
\* ------------------------------------------------------------------------
\* for i in 0..100
PollBudget == 100

\* URLs that occur in input batches.
UrlDirect == <<"?", "q", "=", "-", "2", "5", ".", "0", ",", "1", "6", "0", ".", "0">>

UrlPlace == <<"p", "/">>

\* URLs the browser can report after a navigation, besides the original.
UrlView == <<"p", "/", "@", "-", "3", "3", ".", "8", ",", "1", "5", "1", ".", "2">>

UrlLoading == <<"p", "/", "?">>

UrlViewBad == <<"p", "/", "@", "u3", ",", "1">>

RedirectUrls == {UrlView, UrlLoading, UrlViewBad}

\* Urls put together from an anchor, two number texts, a separator and a
\* tail.
NumberTexts ==
    { <<"1">>, <<"-", "2", ".", "5">>, <<"u3">>, <<"3", ".">>, <<"-">> }

Anchors == {QueryAnchor, ViewAnchor, <<"q">>}

Separators == {<<",">>, <<";">>}

Tails == {<<>>, <<"&", "q", "=", "4", ",", "0">>, <<"u3">>}

ResolveUrls ==
    { <<"/">> \o a \o n1 \o sep \o n2 \o t :
        a \in Anchors, n1 \in NumberTexts, sep \in Separators,
        n2 \in NumberTexts, t \in Tails }

\* Every url the model hands to get_coords_for_url or reads from the
\* browser.
KnownUrls == {UrlDirect, UrlPlace} \cup RedirectUrls \cup ResolveUrls

\* coords_from_regex(&pattern, u) for both patterns of get_coords_for_url
\* and every url of the model, computed once.
CoordsFromRegex ==
    [anchor \in {QueryAnchor, ViewAnchor} |->
        [u \in KnownUrls |-> coords_from_regex(anchor, u)]]

JsonString(s) == [t |-> "string", s |-> s]

JsonNumber == [t |-> "number", s |-> <<>>]

NoGeometry == [type |-> "none", coords |-> <<>>]

Point(coords) == [type |-> "Point", coords |-> coords]

\* Features a parsed GeoJSON input can hold: a geometry (or none) and a
\* properties object.  A position has at least two numbers; the positions
\* of a LineString are written one after the other.
GeoFeatures ==
    { [geometry |-> Point(<<0, 0>>),
       properties |-> [name |-> JsonString(<<"a">>), google_maps_url |-> JsonString(UrlPlace)]],
      [geometry |-> Point(<<0, 0>>),
       properties |-> [name |-> JsonString(<<"b">>), google_maps_url |-> JsonString(UrlDirect)]],
      [geometry |-> Point(<<0, 0>>),
       properties |-> [name |-> JsonString(<<"c">>)]],
      [geometry |-> Point(<<0, 0>>),
       properties |-> [google_maps_url |-> JsonNumber]],
      [geometry |-> Point(<<0, 5 * Scale>>),
       properties |-> [google_maps_url |-> JsonString(UrlDirect)]],
      [geometry |-> Point(<<5 * Scale, 0>>),
       properties |-> [google_maps_url |-> JsonString(UrlPlace)]],
      [geometry |-> [type |-> "LineString", coords |-> <<0, 0, 0, 0>>],
       properties |-> [google_maps_url |-> JsonString(UrlPlace)]],
      [geometry |-> NoGeometry,
       properties |-> [google_maps_url |-> JsonString(UrlDirect)]] }

None == [some |-> FALSE, v |-> <<>>]

Some(v) == [some |-> TRUE, v |-> v]

\* A row of the CSV reader: Ok(Record) or a deserialization error.
Record(title, note, url, comment) ==
    [ok |-> TRUE, title |-> title, note |-> note, url |-> url, comment |-> comment]

BadRow == [ok |-> FALSE, title |-> <<>>, note |-> None, url |-> <<>>, comment |-> None]

CsvRows ==
    { Record(<<"C">>, None, UrlDirect, None),
      Record(<<"B">>, Some(<<"n">>), UrlPlace, None),
      Record(<<"Z">>, Some(<<"n">>), UrlDirect, Some(<<"c">>)),
      Record(<<"D">>, None, UrlDirect, Some(<<"c">>)),
      BadRow }

BatchesOf(S) == UNION {[1..n -> S] : n \in 0..MaxBatch}

NoResult == [tag |-> "none", coords |-> <<>>, err |-> "none"]

VARIABLES
    pc,          \* where the run stands
    cli,         \* the parsed command line: input extension, only_changed_places
    session,     \* the WebDriver client c: "none", "open", "closed"
    closeCalled, \* c.close() was invoked
    sessUsed,    \* goto, current_url or close was invoked on the session
    writable,    \* outcome of the writability check: "unchecked", "ok", "fail"
    file,        \* the output file
    input,       \* the records of the input file
    idx,         \* the record the loop stands at
    out,         \* new_features / records_and_coords
    outSrc,      \* for each entry of out, the input record it comes from
    log,         \* for each examined record: "skip", "ok", "fail"
    features,    \* the feature collection handed to the writer
    url,         \* get_coords_for_url: its url argument
    i,           \* get_coords_for_url: the loop counter
    navCalls,    \* goto calls of the current get_coords_for_url
    urlCalls,    \* current_url calls of the current get_coords_for_url
    sessErr,     \* the session returned an error to the current call
    sawDiff,     \* a poll of the current call read a URL other than url
    sawMatch,    \* ... a URL other than url that the "@" pattern matches
    coordUrl,    \* the first URL read, other than url, with a view-center
                 \* coordinate in it; <<>> when there was none so far
    result       \* what get_coords_for_url returned

resolveVars == <<url, i, navCalls, urlCalls, sessErr, sawDiff, sawMatch, coordUrl, result>>

runVars == <<cli, closeCalled, writable, file, input, idx, out, outSrc, log, features>>

vars == <<pc, session, sessUsed, runVars, resolveVars>>

IsCsv == cli.ext = "csv"

AbsentFile == [state |-> "absent", content |-> <<>>]

OldFile == [state |-> "old", content |-> <<>>]

EmptyFile == [state |-> "empty", content |-> <<>>]

\* A file holding some of the bytes of a write that failed.
PartialFile == [state |-> "partial", content |-> <<>>]

ResolveInit ==
    /\ url = <<>>
    /\ i = 0
    /\ navCalls = 0
    /\ urlCalls = 0
    /\ sessErr = FALSE
    /\ sawDiff = FALSE
    /\ sawMatch = FALSE
    /\ coordUrl = <<>>
    /\ result = NoResult

Init ==
    /\ pc = "start"
    /\ cli \in [ext : {"csv", "geojson"}, only_changed_places : BOOLEAN]
    /\ session = "none"
    /\ closeCalled = FALSE
    /\ sessUsed = FALSE
    /\ writable = "unchecked"
    /\ file \in {AbsentFile, OldFile}
    /\ input = <<>>
    /\ idx = 0
    /\ out = <<>>
    /\ outSrc = <<>>
    /\ log = <<>>
    /\ features = <<>>
    /\ ResolveInit

\* ------------------------------------------------------------------------
\* run: connect, writability check
\* ------------------------------------------------------------------------
\* ClientBuilder::native()...connect(..).await.expect(..)
Connect ==
    /\ pc = "start"
    /\ \/ session' = "open" /\ pc' = "precheck"
       \/ session' = session /\ pc' = "panicked"
    /\ UNCHANGED <<sessUsed, runVars, resolveVars>>

\* Mutant: the outcome of the check is not looked at (no expect).
Precheck_Unchecked ==
    /\ pc = "precheck"
    /\ \/ /\ writable' = "ok"
          /\ file' = IF file.state = "absent" THEN [state |-> "empty", content |-> <<>>] ELSE file
       \/ /\ writable' = "fail"
          /\ file' = file
    /\ pc' = "read"
    /\ UNCHANGED <<cli, closeCalled, input, idx, out, outSrc, log, features>>
    /\ UNCHANGED <<session, sessUsed, resolveVars>>

\* Mutant: the check is made with File::create, which truncates.
Precheck_Truncate ==
    /\ pc = "precheck"
    /\ \/ /\ writable' = "ok"
          /\ file' = EmptyFile
          /\ pc' = "read"
       \/ /\ writable' = "fail"
          /\ file' = file
          /\ pc' = "panicked"
    /\ UNCHANGED <<cli, closeCalled, input, idx, out, outSrc, log, features>>
    /\ UNCHANGED <<session, sessUsed, resolveVars>>

\* OpenOptions::new().create(true).write(true).open(..).expect(..): creates
\* a missing file, leaves the content of an existing one.
Precheck ==
    /\ pc = "precheck"
    /\ \/ /\ writable' = "ok"
          /\ file' = IF file.state = "absent" THEN EmptyFile ELSE file
          /\ pc' = "read"
       \/ /\ writable' = "fail"
          /\ file' = file
          /\ pc' = "panicked"
    /\ UNCHANGED <<cli, closeCalled, input, idx, out, outSrc, log, features>>
    /\ UNCHANGED <<session, sessUsed, resolveVars>>

\* ------------------------------------------------------------------------
\* get_coords_for_url
\* ------------------------------------------------------------------------
ResolveReset ==
    /\ url' = <<>>
    /\ i' = 0
    /\ navCalls' = 0
    /\ urlCalls' = 0
    /\ sessErr' = FALSE
    /\ sawDiff' = FALSE
    /\ sawMatch' = FALSE
    /\ coordUrl' = <<>>
    /\ result' = NoResult

\* Mutant: the direct check made with the view-center pattern.
DirectCoords_ViewPattern(u) == CoordsFromRegex[ViewAnchor][u]

\* coords_from_regex(&pattern, url) with the pattern "q=" ++ LATLNGPAT
DirectCoords(u) == CoordsFromRegex[QueryAnchor][u]

\* Mutant: a session error is swallowed and the call goes on.
OnSessionError_Retry ==
    /\ result' = result
    /\ pc' = pc

\* The `?` on a session call: the error is the call's result.
OnSessionError ==
    /\ result' = Err("SessionError")
    /\ pc' = "resolved"

\* The coordinate query in the url itself: return without the browser.
GetCoordsDirect ==
    /\ pc = "resolve"
    /\ DirectCoords(url).tag = "Ok"
    /\ result' = DirectCoords(url)
    /\ pc' = "resolved"
    /\ UNCHANGED <<url, i, navCalls, urlCalls, sessErr, sawDiff, sawMatch, coordUrl>>
    /\ UNCHANGED <<session, sessUsed, runVars>>

\* c.goto(url).await?
Goto ==
    /\ pc = "resolve"
    /\ DirectCoords(url).tag # "Ok"
    /\ navCalls' = navCalls + 1
    /\ sessUsed' = TRUE
    /\ \/ /\ pc' = "poll"
          /\ UNCHANGED <<sessErr, result>>
       \/ /\ sessErr' = TRUE
          /\ OnSessionError
    /\ UNCHANGED <<url, i, urlCalls, sawDiff, sawMatch, coordUrl>>
    /\ UNCHANGED <<session, runVars>>

\* What current_url() can answer: the url navigated to or a redirect.
Responses == {url} \cup RedirectUrls

\* Mutant: the loop runs once more than the budget (0..=100).
AfterPoll_OneMore ==
    IF i + 1 <= PollBudget
    THEN /\ i' = i + 1
         /\ pc' = "poll"
         /\ result' = result
    ELSE /\ i' = i + 1
         /\ pc' = "resolved"
         /\ result' = Err("Timeout")

\* The loop's exit after a poll without a result: the next iteration, or
\* bail!(..) when the budget is used up.
AfterPoll ==
    IF i + 1 < PollBudget
    THEN /\ i' = i + 1
         /\ pc' = "poll"
         /\ result' = result
    ELSE /\ i' = i + 1
         /\ pc' = "resolved"
         /\ result' = Err("Timeout")

\* Mutant: the url read is never compared with the original.
Differs_Always(redirected_url, original) == TRUE

\* Mutant: the comparison is inverted (==).
Differs_Inverted(redirected_url, original) == redirected_url = original

\* redirected_url.as_str() != url
Differs(redirected_url, original) == redirected_url # original

\* One iteration of the loop: sleep, c.current_url().await?, and the
\* view-center extraction when the url read differs from the original.
CurrentUrl ==
    /\ pc = "poll"
    /\ urlCalls' = urlCalls + 1
    /\ sessUsed' = TRUE
    /\ \/ /\ sessErr' = TRUE
          /\ OnSessionError
          /\ UNCHANGED <<i, sawDiff, sawMatch, coordUrl>>
       \/ \E redirected_url \in Responses :
            LET found == CoordsFromRegex[ViewAnchor][redirected_url]
            IN  /\ sessErr' = sessErr
                /\ sawDiff' = (sawDiff \/ redirected_url # url)
                /\ sawMatch' = (sawMatch \/
                       (/\ redirected_url # url
                        /\ found # Err("NotFound")))
                /\ coordUrl' = IF /\ coordUrl = <<>>
                                  /\ redirected_url # url
                                  /\ found.tag = "Ok"
                               THEN redirected_url ELSE coordUrl
                /\ IF Differs(redirected_url, url) /\ found.tag = "Ok"
                   THEN /\ result' = found
                        /\ pc' = "resolved"
                        /\ i' = i
                   ELSE AfterPoll
    /\ UNCHANGED <<url, navCalls>>
    /\ UNCHANGED <<session, runVars>>

\* ------------------------------------------------------------------------
\* run_geojson
\* ------------------------------------------------------------------------
\* fs::read_to_string(..).expect(..), FeatureCollection::from_str(..).expect(..)
ReadGeojson ==
    /\ pc = "read"
    /\ ~IsCsv
    /\ \/ /\ pc' = "panicked"
          /\ UNCHANGED <<input, idx>>
       \/ /\ input' \in BatchesOf(GeoFeatures)
          /\ idx' = 1
          /\ pc' = "loop"
    /\ UNCHANGED <<cli, closeCalled, writable, file, out, outSrc, log, features>>
    /\ UNCHANGED <<session, sessUsed, resolveVars>>

\* Mutant: only the longitude is compared with 0.0.
AtNullIsland_LngOnly(feature) ==
    /\ feature.geometry.type = "Point"
    /\ Len(feature.geometry.coords) >= 2
    /\ feature.geometry.coords[1] = 0

\* Some(Geometry { value: Value::Point(coords) }) with lng == 0.0, lat == 0.0
AtNullIsland(feature) ==
    /\ feature.geometry.type = "Point"
    /\ Len(feature.geometry.coords) >= 2
    /\ feature.geometry.coords[1] = 0
    /\ feature.geometry.coords[2] = 0

\* properties.get("google_maps_url").and_then(|v| v.as_str()) is Some
HasUrl(feature) ==
    /\ "google_maps_url" \in DOMAIN feature.properties
    /\ feature.properties.google_maps_url.t = "string"

NeedsCoords(feature) == AtNullIsland(feature) /\ HasUrl(feature)

\* Mutant: a feature that was not updated is always dropped.
KeepUnchanged_Drop(feature) ==
    /\ out' = out
    /\ outSrc' = outSrc

\* Mutant: a feature that was not updated is always kept.
KeepUnchanged_Keep(feature) ==
    /\ out' = Append(out, feature)
    /\ outSrc' = Append(outSrc, idx)

\* Mutant: a feature that was not updated is put at the front.
KeepUnchanged_Front(feature) ==
    IF ~cli.only_changed_places
    THEN /\ out' = <<feature>> \o out
         /\ outSrc' = <<idx>> \o outSrc
    ELSE /\ out' = out
         /\ outSrc' = outSrc

\* What the loop body does with a feature it did not update.
KeepUnchanged(feature) ==
    IF ~cli.only_changed_places
    THEN /\ out' = Append(out, feature)
         /\ outSrc' = Append(outSrc, idx)
    ELSE /\ out' = out
         /\ outSrc' = outSrc

\* The loop body up to the call of get_coords_for_url, or to its end for a
\* feature that is not looked up.
GeojsonFeature ==
    /\ pc = "loop"
    /\ ~IsCsv
    /\ idx <= Len(input)
    /\ IF NeedsCoords(input[idx])
       THEN /\ url' = input[idx].properties.google_maps_url.s
            /\ pc' = "resolve"
            /\ UNCHANGED <<idx, out, outSrc, log>>
       ELSE /\ KeepUnchanged(input[idx])
            /\ log' = Append(log, "skip")
            /\ idx' = idx + 1
            /\ pc' = "loop"
            /\ url' = url
    /\ UNCHANGED <<cli, closeCalled, writable, file, input, features>>
    /\ UNCHANGED <<i, navCalls, urlCalls, sessErr, sawDiff, sawMatch, coordUrl, result>>
    /\ UNCHANGED <<session, sessUsed>>

\* Mutant: the feature is built anew from the url and the coordinate.
UpdateCoords_Rebuild(feature, new_coords) ==
    [geometry   |-> Point(new_coords),
     properties |-> [google_maps_url |-> feature.properties.google_maps_url]]

\* *coords = new_coords; on the feature's own geometry
UpdateCoords(feature, new_coords) ==
    [feature EXCEPT !.geometry.coords = new_coords]

\* match get_coords_for_url(c, url).await { Ok(..) => .., Err(..) => .. }
GeojsonResult ==
    /\ pc = "resolved"
    /\ ~IsCsv
    /\ IF result.tag = "Ok"
       THEN /\ out' = Append(out, UpdateCoords(input[idx], result.coords))
            /\ outSrc' = Append(outSrc, idx)
            /\ log' = Append(log, "ok")
       ELSE /\ KeepUnchanged(input[idx])
            /\ log' = Append(log, "fail")
    /\ idx' = idx + 1
    /\ pc' = "loop"
    /\ ResolveReset
    /\ UNCHANGED <<cli, closeCalled, writable, file, input, features>>
    /\ UNCHANGED <<session, sessUsed>>

\* feature_collection.features = new_features
GeojsonDone ==
    /\ pc = "loop"
    /\ ~IsCsv
    /\ idx > Len(input)
    /\ features' = out
    /\ pc' = "write"
    /\ UNCHANGED <<cli, closeCalled, writable, file, input, idx, out, outSrc, log>>
    /\ UNCHANGED <<session, sessUsed, resolveVars>>

\* ------------------------------------------------------------------------
\* run_csv
\* ------------------------------------------------------------------------
\* csv::ReaderBuilder::new().from_path(..).expect(..); the rows are what
\* rdr.deserialize::<Record>() yields.
OpenCsv ==
    /\ pc = "read"
    /\ IsCsv
    /\ \/ /\ pc' = "panicked"
          /\ UNCHANGED <<input, idx>>
       \/ /\ input' \in BatchesOf(CsvRows)
          /\ idx' = 1
          /\ pc' = "loop"
    /\ UNCHANGED <<cli, closeCalled, writable, file, out, outSrc, log, features>>
    /\ UNCHANGED <<session, sessUsed, resolveVars>>

\* Mutant: a row that does not deserialize ends the loop (break).
CsvRow_StopAtBadRow ==
    /\ pc = "loop"
    /\ IsCsv
    /\ idx <= Len(input)
    /\ IF input[idx].ok
       THEN /\ url' = input[idx].url
            /\ pc' = "resolve"
            /\ UNCHANGED <<idx, log>>
       ELSE /\ log' = Append(log, "skip")
            /\ idx' = Len(input) + 1
            /\ pc' = "loop"
            /\ url' = url
    /\ UNCHANGED <<cli, closeCalled, writable, file, input, out, outSrc, features>>
    /\ UNCHANGED <<i, navCalls, urlCalls, sessErr, sawDiff, sawMatch, coordUrl, result>>
    /\ UNCHANGED <<session, sessUsed>>

\* The loop body up to the call of get_coords_for_url, or to its end for a
\* row that did not deserialize.
CsvRow ==
    /\ pc = "loop"
    /\ IsCsv
    /\ idx <= Len(input)
    /\ IF input[idx].ok
       THEN /\ url' = input[idx].url
            /\ pc' = "resolve"
            /\ UNCHANGED <<idx, log>>
       ELSE /\ log' = Append(log, "skip")
            /\ idx' = idx + 1
            /\ pc' = "loop"
            /\ url' = url
    /\ UNCHANGED <<cli, closeCalled, writable, file, input, out, outSrc, features>>
    /\ UNCHANGED <<i, navCalls, urlCalls, sessErr, sawDiff, sawMatch, coordUrl, result>>
    /\ UNCHANGED <<session, sessUsed>>

\* Mutant: the error of get_coords_for_url is unwrapped and ends the run.
CsvResult_Escalate ==
    /\ pc = "resolved"
    /\ IsCsv
    /\ IF result.tag = "Ok"
       THEN /\ out' = Append(out, <<input[idx], result.coords>>)
            /\ outSrc' = Append(outSrc, idx)
            /\ log' = Append(log, "ok")
            /\ idx' = idx + 1
            /\ pc' = "loop"
       ELSE /\ UNCHANGED <<out, outSrc, idx>>
            /\ log' = Append(log, "fail")
            /\ pc' = "panicked"
    /\ ResolveReset
    /\ UNCHANGED <<cli, closeCalled, writable, file, input, features>>
    /\ UNCHANGED <<session, sessUsed>>

\* match get_coords_for_url(c, &record.url).await { Ok(..) => .., Err(..) => .. }
CsvResult ==
    /\ pc = "resolved"
    /\ IsCsv
    /\ IF result.tag = "Ok"
       THEN /\ out' = Append(out, <<input[idx], result.coords>>)
            /\ outSrc' = Append(outSrc, idx)
            /\ log' = Append(log, "ok")
       ELSE /\ UNCHANGED <<out, outSrc>>
            /\ log' = Append(log, "fail")
    /\ idx' = idx + 1
    /\ pc' = "loop"
    /\ ResolveReset
    /\ UNCHANGED <<cli, closeCalled, writable, file, input, features>>
    /\ UNCHANGED <<session, sessUsed>>

\* Mutant: the note is inserted whether the record has one or not.
PropertyKeys_NoteAlways(record) ==
    {"name", "google_maps_url", "note"}
        \cup (IF record.comment.some THEN {"comment"} ELSE {})

\* The keys inserted into the properties map.
PropertyKeys(record) ==
    {"name", "google_maps_url"}
        \cup (IF record.note.some THEN {"note"} ELSE {})
        \cup (IF record.comment.some THEN {"comment"} ELSE {})

record_and_coords_to_feature(rc) ==
    LET record == rc[1]
        coords == rc[2]
    IN  [geometry   |-> Point(coords),
         properties |->
            [k \in PropertyKeys(record) |->
                JsonString(CASE k = "name" -> record.title
                             [] k = "google_maps_url" -> record.url
                             [] k = "note" -> record.note.v
                             [] k = "comment" -> record.comment.v)]]

\* records_and_coords.into_iter().map(record_and_coords_to_feature).collect()
CsvDone ==
    /\ pc = "loop"
    /\ IsCsv
    /\ idx > Len(input)
    /\ features' = [k \in 1..Len(out) |-> record_and_coords_to_feature(out[k])]
    /\ pc' = "write"
    /\ UNCHANGED <<cli, closeCalled, writable, file, input, idx, out, outSrc, log>>
    /\ UNCHANGED <<session, sessUsed, resolveVars>>

\* ------------------------------------------------------------------------
\* run: output and close
\* ------------------------------------------------------------------------
\* fs::File::create(..).expect(..) truncates; file.write_all(..).expect(..)
WriteOutput ==
    /\ pc = "write"
    /\ \/ /\ file' = file
          /\ pc' = "panicked"
       \/ /\ file' \in {EmptyFile, PartialFile}
          /\ pc' = "panicked"
       \/ /\ file' = [state |-> "written", content |-> features]
          /\ pc' = "close"
    /\ UNCHANGED <<cli, closeCalled, writable, input, idx, out, outSrc, log, features>>
    /\ UNCHANGED <<session, sessUsed, resolveVars>>

\* c.close().await.expect(..)
Close ==
    /\ pc = "close"
    /\ closeCalled' = TRUE
    /\ sessUsed' = TRUE
    /\ \/ session' = "closed" /\ pc' = "done"
       \/ session' = session /\ pc' = "panicked"
    /\ UNCHANGED <<cli, writable, file, input, idx, out, outSrc, log, features>>
    /\ UNCHANGED resolveVars

Next ==
    \/ Connect
    \/ Precheck
    \/ ReadGeojson
    \/ GeojsonFeature
    \/ GeojsonResult
    \/ GeojsonDone
    \/ OpenCsv
    \/ CsvRow
    \/ CsvResult
    \/ CsvDone
    \/ GetCoordsDirect
    \/ Goto
    \/ CurrentUrl
    \/ WriteOutput
    \/ Close

Spec == Init /\ [][Next]_vars

\* ------------------------------------------------------------------------
\* One call of get_coords_for_url on an open session, for urls put
\* together from an anchor, two number texts, a separator and a tail.
\* ------------------------------------------------------------------------
InitResolve ==
    /\ pc = "resolve"
    /\ cli = [ext |-> "geojson", only_changed_places |-> FALSE]
    /\ session = "open"
    /\ closeCalled = FALSE
    /\ sessUsed = FALSE
    /\ writable = "ok"
    /\ file = EmptyFile
    /\ input = <<>>
    /\ idx = 0
    /\ out = <<>>
    /\ outSrc = <<>>
    /\ log = <<>>
    /\ features = <<>>
    /\ url \in ResolveUrls
    /\ i = 0
    /\ navCalls = 0
    /\ urlCalls = 0
    /\ sessErr = FALSE
    /\ sawDiff = FALSE
    /\ sawMatch = FALSE
    /\ coordUrl = <<>>
    /\ result = NoResult

NextResolve ==
    \/ GetCoordsDirect
    \/ Goto
    \/ CurrentUrl

SpecResolve == InitResolve /\ [][NextResolve]_vars

\* The same call when every awaited step (the session's answer, the sleep)
\* comes back.
FairResolve == SpecResolve /\ WF_vars(NextResolve)

\* ------------------------------------------------------------------------
\* One call of coords_from_regex, with either pattern, on texts with no,
\* one or two matches.
\* ------------------------------------------------------------------------
ExtractTails == Tails \cup {<<"@", "4", ",", "0">>}

ExtractTexts ==
    { <<"/">> \o a \o n1 \o sep \o n2 \o t :
        a \in Anchors, n1 \in NumberTexts, sep \in Separators,
        n2 \in NumberTexts, t \in ExtractTails }
      \cup {UrlDirect, UrlPlace, UrlView, UrlLoading, UrlViewBad}

InitExtract ==
    /\ pc = "extract"
    /\ cli = [ext |-> "geojson", only_changed_places |-> FALSE]
    /\ session = "none"
    /\ closeCalled = FALSE
    /\ sessUsed = FALSE
    /\ writable = "unchecked"
    /\ file = AbsentFile
    /\ input = <<>>
    /\ idx = 0
    /\ out = <<>>
    /\ outSrc = <<>>
    /\ log = <<>>
    /\ features = <<>>
    /\ url \in ExtractTexts
    /\ i = 0
    /\ navCalls = 0
    /\ urlCalls = 0
    /\ sessErr = FALSE
    /\ sawDiff = FALSE
    /\ sawMatch = FALSE
    /\ coordUrl = <<>>
    /\ result = NoResult

\* coords_from_regex(&pattern, text) with the pattern "q=" ++ LATLNGPAT
ExtractQuery ==
    /\ pc = "extract"
    /\ result' = coords_from_regex(QueryAnchor, url)
    /\ pc' = "extracted_query"
    /\ UNCHANGED <<url, i, navCalls, urlCalls, sessErr, sawDiff, sawMatch, coordUrl>>
    /\ UNCHANGED <<session, sessUsed, runVars>>

\* coords_from_regex(&pattern, text) with the pattern "@" ++ LATLNGPAT
ExtractView ==
    /\ pc = "extract"
    /\ result' = coords_from_regex(ViewAnchor, url)
    /\ pc' = "extracted_view"
    /\ UNCHANGED <<url, i, navCalls, urlCalls, sessErr, sawDiff, sawMatch, coordUrl>>
    /\ UNCHANGED <<session, sessUsed, runVars>>

NextExtract ==
    \/ ExtractQuery
    \/ ExtractView

SpecExtract == InitExtract /\ [][NextExtract]_vars

\* ------------------------------------------------------------------------
\* Claims
\* ------------------------------------------------------------------------
InResolve == pc \in {"resolve", "poll", "resolved"}

\* ASCII text of the shape -?[0-9]+(.[0-9]+)?, the texts f64 parsing reads.
IsDecimalText(s) ==
    LET body == IF s # <<>> /\ s[1] = "-" THEN SubSeq(s, 2, Len(s)) ELSE s
    IN  \E n \in 1..Len(body) :
          /\ \A k \in 1..n : body[k] \in AsciiDigits
          /\ \/ n = Len(body)
             \/ /\ n + 2 <= Len(body)
                /\ body[n + 1] = "."
                /\ \A k \in (n + 2)..Len(body) : body[k] \in AsciiDigits

\* The url carries a direct coordinate query: its first "q=lat,lng" has two
\* decimal numbers.
HasDirectQuery(u) ==
    /\ FirstMatch(QueryAnchor, u).found
    /\ IsDecimalText(FirstMatch(QueryAnchor, u).lat)
    /\ IsDecimalText(FirstMatch(QueryAnchor, u).lng)

C10_SessionErrorNotRetried ==
    /\ [](sessErr => pc = "resolved" /\ result = Err("SessionError"))
    /\ [][sessErr => navCalls' = navCalls /\ urlCalls' = urlCalls]_vars

C10_Witness ==
    /\ sessErr
    /\ pc = "resolved"
    /\ navCalls = 1
    /\ urlCalls = 3
    /\ i = 2

\* The geometry is a point whose coordinate pair is exactly (0.0, 0.0).
SentinelPoint(f) ==
    /\ f.geometry.type = "Point"
    /\ Len(f.geometry.coords) >= 2
    /\ <<f.geometry.coords[1], f.geometry.coords[2]>> = <<0, 0>>

\* The properties carry a google_maps_url (a string).
CarriesUrl(f) ==
    /\ "google_maps_url" \in DOMAIN f.properties
    /\ f.properties.google_maps_url.t = "string"

\* The records get_coords_for_url has been called for.
ResolverCalledFor ==
    {k \in 1..Len(log) : log[k] \in {"ok", "fail"}}
        \cup (IF InResolve THEN {idx} ELSE {})

LoopOver == pc \in {"write", "close", "done"}

\* C2: in geometry-update mode get_coords_for_url is called for a feature
\* only if its geometry is a point at exactly (0.0, 0.0) and its properties
\* carry a google_maps_url, and then with that url.
C2_OnlySentinelResolved ==
    ~IsCsv =>
        /\ \A k \in ResolverCalledFor :
              SentinelPoint(input[k]) /\ CarriesUrl(input[k])
        /\ InResolve => url = input[idx].properties.google_maps_url.s

C2_Witness ==
    /\ ~IsCsv
    /\ InResolve
    /\ idx = 2
    /\ log = <<"skip">>
    /\ input[1].geometry = Point(<<0, 5 * Scale>>)
    /\ CarriesUrl(input[1])

\* C3: in geometry-update mode without only_changed_places the output has
\* as many features as the input, whatever records succeed or fail.
C3_SameSizeWhenNotOnlyChanged ==
    (~IsCsv /\ ~cli.only_changed_places) =>
        /\ LoopOver => Len(features) = Len(input)
        /\ file.state = "written" => Len(file.content) = Len(input)

C3_Witness ==
    /\ ~IsCsv
    /\ ~cli.only_changed_places
    /\ pc = "done"
    /\ log = <<"fail", "ok">>
    /\ Len(file.content) = 2

\* C4: in geometry-update mode with only_changed_places the output holds
\* exactly the input features that were at the sentinel, carried a url and
\* were resolved with success, once each.
C4_OnlyChangedExactlyResolved ==
    (~IsCsv /\ cli.only_changed_places /\ LoopOver) =>
        LET changed == {k \in 1..Len(input) :
                          /\ SentinelPoint(input[k])
                          /\ CarriesUrl(input[k])
                          /\ log[k] = "ok"}
        IN  /\ Len(log) = Len(input)
            /\ Len(outSrc) = Len(features)
            /\ {outSrc[j] : j \in 1..Len(outSrc)} = changed
            /\ Len(features) = Cardinality(changed)
            /\ \A j \in 1..Len(features) :
                  features[j].properties = input[outSrc[j]].properties

C4_Witness ==
    /\ ~IsCsv
    /\ cli.only_changed_places
    /\ pc = "write"
    /\ log = <<"fail", "ok">>
    /\ outSrc = <<2>>

DroppedOnFailure == IsCsv \/ cli.only_changed_places

\* C5 as claimed: a call whose polls never read another url ends in Timeout
\* after exactly PollBudget current_url calls, and the record is dropped
\* from the output, the run going on.
C5_TimeoutRecordDropped ==
    /\ [](pc = "resolved" /\ result = Err("Timeout")
             => urlCalls = PollBudget /\ navCalls = 1)
    /\ [](pc = "resolved" /\ navCalls = 1 /\ ~sessErr /\ ~sawDiff
             => result = Err("Timeout"))
    /\ [][pc = "resolved" /\ result = Err("Timeout")
             => pc' = "loop" /\ idx' = idx + 1 /\ out' = out]_vars

\* C5 amended: ... and the record is dropped in tabular-build mode and with
\* only_changed_places, and kept as it was in geometry-update mode without
\* only_changed_places; the run goes on with the next record.
C5_TimeoutAfterPollBudget ==
    /\ [](pc = "resolved" /\ result = Err("Timeout")
             => urlCalls = PollBudget /\ navCalls = 1)
    /\ [](pc = "resolved" /\ navCalls = 1 /\ ~sessErr /\ ~sawDiff
             => result = Err("Timeout"))
    /\ [][pc = "resolved" /\ result = Err("Timeout")
             => /\ pc' = "loop"
                /\ idx' = idx + 1
                /\ out' = IF DroppedOnFailure THEN out
                          ELSE Append(out, input[idx])]_vars

C5_Witness ==
    /\ pc = "resolved"
    /\ result = Err("Timeout")
    /\ ~sawDiff
    /\ urlCalls = PollBudget
    /\ ~DroppedOnFailure

\* C6 as claimed: a run that opened the session does not end, normally or
\* by a panic, without c.close() having been called.
C6_SessionClosedOnEveryPath ==
    (pc \in {"done", "panicked"} /\ session # "none") => closeCalled

C8_CsvOutputExactlyResolvedRows ==
    (IsCsv /\ LoopOver) =>
        LET resolved == {k \in 1..Len(input) : input[k].ok /\ log[k] = "ok"}
        IN  /\ Len(log) = Len(input)
            /\ \A k \in 1..Len(input) : ~input[k].ok => log[k] = "skip"
            /\ Len(outSrc) = Len(features)
            /\ {outSrc[j] : j \in 1..Len(outSrc)} = resolved
            /\ Len(features) = Cardinality(resolved)
            /\ \A j \in 1..Len(features) :
                  features[j].properties.google_maps_url.s = input[outSrc[j]].url

C8_Witness ==
    /\ IsCsv
    /\ pc = "write"
    /\ log = <<"skip", "ok">>
    /\ ~input[1].ok
    /\ Len(features) = 1

\* A record the reconciler hands to get_coords_for_url.
Eligible(r) == IF IsCsv THEN r.ok ELSE SentinelPoint(r) /\ CarriesUrl(r)

\* C9: a failed get_coords_for_url never ends the run: the loop goes on to
\* the next record with the session still open, every record is gone
\* through, the eligible ones with a call on that session, and the run
\* comes to its output.
C9_FailureDoesNotAbortBatch ==
    /\ [][pc = "resolved" /\ result.tag = "Err"
             => pc' = "loop" /\ idx' = idx + 1 /\ session' = "open"]_vars
    /\ [](InResolve => session = "open")
    /\ [](LoopOver =>
             /\ Len(log) = Len(input)
             /\ \A k \in 1..Len(input) :
                   Eligible(input[k]) <=> log[k] \in {"ok", "fail"})

C9_Witness ==
    /\ LoopOver
    /\ Len(log) = 2
    /\ log[1] = "fail"
    /\ log[2] = "ok"
    /\ session = "open"
    /\ cli.only_changed_places

\* The pattern of the coords_from_regex call that has returned.
ExtractedWith ==
    IF pc = "extracted_query" THEN QueryAnchor ELSE ViewAnchor

Extracted == pc \in {"extracted_query", "extracted_view"}

\* C11: a coordinate returned by coords_from_regex is the pair
\* [lng, lat] of the match's captures (lat, lng), for both patterns;
\* "q=-25.0,160.0" gives (160.0, -25.0) and "@-33.8,151.2" gives
\* [151.2, -33.8].
C11_LngLatOrder ==
    /\ (Extracted /\ result.tag = "Ok") =>
          LET m == FirstMatch(ExtractedWith, url)
          IN  /\ Len(result.coords) = 2
              /\ result.coords[1] = ParseF64(m.lng).val
              /\ result.coords[2] = ParseF64(m.lat).val
    /\ (pc = "extracted_query" /\ url = UrlDirect) =>
          result = Ok(<<160 * Scale, 0 - 25 * Scale>>)
    /\ (pc = "extracted_view" /\ url = UrlView) =>
          result = Ok(<<(1512 * Scale) \div 10, 0 - (338 * Scale) \div 10>>)

C11_Witness ==
    /\ pc = "extracted_view"
    /\ url = UrlView
    /\ result.tag = "Ok"
    /\ result.coords[1] > 0
    /\ result.coords[2] < 0

\* Index of the last character of the leftmost match.
FirstMatchEnd(anchor, text) ==
    LET p == MinOf(MatchStarts(anchor, text))
        m == LATLNGPAT(text, p + Len(anchor))
    IN  p + Len(anchor) + Len(m.lat) + Len(m.lng)

\* C12: on a text with two or more matches coords_from_regex returns what
\* it returns on the text cut after the leftmost match: the later matches
\* have no influence.
C12_FirstMatchWins ==
    (Extracted /\ Cardinality(MatchStarts(ExtractedWith, url)) >= 2) =>
        result = coords_from_regex(ExtractedWith,
                     SubSeq(url, 1, FirstMatchEnd(ExtractedWith, url)))

C12_Witness ==
    /\ pc = "extracted_query"
    /\ Cardinality(MatchStarts(QueryAnchor, url)) = 2
    /\ result = Ok(<<Scale, 0 - (5 * Scale) \div 2>>)

\* C13: in both modes the retained records stand in the output in the
\* order of the input: the entries come from strictly increasing input
\* positions, each from the record at its position, and the output has
\* nothing else, so a dropped record leaves no gap.
C13_InputOrderPreserved ==
    /\ Len(outSrc) = Len(out)
    /\ \A j \in 1..Len(outSrc) :
          /\ outSrc[j] \in 1..Len(input)
          /\ \A k \in 1..Len(outSrc) : j < k => outSrc[j] < outSrc[k]
          /\ IF IsCsv
             THEN out[j][1] = input[outSrc[j]]
             ELSE out[j].properties = input[outSrc[j]].properties
    /\ LoopOver =>
          /\ Len(features) = Len(outSrc)
          /\ \A j \in 1..Len(features) :
                IF IsCsv
                THEN /\ features[j].properties.name.s = input[outSrc[j]].title
                     /\ features[j].properties.google_maps_url.s
                            = input[outSrc[j]].url
                ELSE features[j].properties = input[outSrc[j]].properties

C13_Witness ==
    /\ ~IsCsv
    /\ ~cli.only_changed_places
    /\ pc = "write"
    /\ log = <<"skip", "ok">>
    /\ outSrc = <<1, 2>>
    /\ features[1].properties # features[2].properties

\* C14: in geometry-update mode a retained feature is its input feature
\* but for the coordinates of its geometry: a resolved feature has the
\* resolved pair there and everything else as it was, and a feature that
\* was not looked up or whose lookup failed is the input feature itself.
C14_OnlyCoordinatesChange ==
    /\ [](~IsCsv =>
            /\ \A j \in 1..Len(out) :
                  LET f == input[outSrc[j]]
                  IN  IF log[outSrc[j]] = "ok"
                      THEN /\ [out[j] EXCEPT !.geometry.coords
                                                = f.geometry.coords] = f
                           /\ Len(out[j].geometry.coords) = 2
                      ELSE out[j] = f
            /\ LoopOver => features = out)
    /\ [][(pc = "resolved" /\ ~IsCsv /\ result.tag = "Ok") =>
            /\ Len(out') = Len(out) + 1
            /\ out'[Len(out')].geometry.coords = result.coords]_vars

C14_Witness ==
    /\ ~IsCsv
    /\ pc = "write"
    /\ log = <<"ok", "fail">>
    /\ Len(features) = 2
    /\ features[1] # input[1]
    /\ features[1].properties = input[1].properties
    /\ features[2] = input[2]

\* C15: the feature built from a record and a coordinate is a Point at
\* that coordinate whose properties are name (the title) and
\* google_maps_url (the url), note exactly when the record has a note and
\* comment exactly when it has a comment.
C15_FeatureFromRecord ==
    (IsCsv /\ LoopOver) =>
        /\ Len(features) = Len(out)
        /\ \A j \in 1..Len(features) :
              LET record == out[j][1]
                  props == features[j].properties
              IN  /\ features[j].geometry = [type |-> "Point", coords |-> out[j][2]]
                  /\ {"name", "google_maps_url"} \subseteq DOMAIN props
                  /\ DOMAIN props \subseteq
                        {"name", "google_maps_url", "note", "comment"}
                  /\ "note" \in DOMAIN props <=> record.note.some
                  /\ "comment" \in DOMAIN props <=> record.comment.some
                  /\ props.name = JsonString(record.title)
                  /\ props.google_maps_url = JsonString(record.url)
                  /\ record.note.some => props.note = JsonString(record.note.v)
                  /\ record.comment.some =>
                        props.comment = JsonString(record.comment.v)

C15_Witness ==
    /\ IsCsv
    /\ pc = "write"
    /\ Len(features) = 2
    /\ DOMAIN features[1].properties = {"name", "google_maps_url", "comment"}
    /\ DOMAIN features[2].properties = {"name", "google_maps_url", "note"}

\* C16: the view-center extraction is made only on a poll that read a URL
\* other than the original: a call that navigated and whose polls all read
\* the original URL returns no coordinate and, the session answering every
\* time, ends in Timeout after the whole budget, whether or not that URL
\* has "@lat,lng" in it.
C16_NoExtractionOnSameUrl ==
    /\ (navCalls = 1 /\ ~sawDiff) => result.tag # "Ok"
    /\ (navCalls = 1 /\ result.tag = "Ok") => (sawDiff /\ coordUrl # url)
    /\ (pc = "resolved" /\ navCalls = 1 /\ ~sawDiff /\ ~sessErr) =>
          (result = Err("Timeout") /\ urlCalls = PollBudget)

C16_Witness ==
    /\ pc = "resolved"
    /\ coords_from_regex(ViewAnchor, url).tag = "Ok"
    /\ navCalls = 1
    /\ ~sawDiff
    /\ result = Err("Timeout")

C19_OutputWrittenOnceAtEnd ==
    /\ [](file.state \in {"written", "partial"} =>
            /\ pc \in {"close", "done", "panicked"}
            /\ idx = Len(input) + 1
            /\ Len(log) = Len(input))
    /\ [](file.state = "written" => file.content = features)
    /\ [](pc \in {"close", "done"} => file.state = "written")
    /\ [][pc = "precheck" =>
            /\ file.state # "absent" => file' = file
            /\ file'.state \in {file.state, "empty"}
            /\ file'.content = file.content]_vars
    /\ [][file' # file => pc \in {"precheck", "write"}]_vars
    /\ [][file.state = "written" => file' = file]_vars

C19_Witness ==
    /\ pc = "done"
    /\ IsCsv
    /\ log = <<"ok", "ok">>
    /\ file = [state |-> "written", content |-> features]
    /\ Len(file.content) = 2
====
